---- MODULE Spec2Model ----
(***************************************************************************)
(* Model of lib/host_synchronize.py: the generator synchronize_hosts, the  *)
(* liveness check _should_synchronize and the staleness policy built by    *)
(* _staleness_timestamps, together with their environment: the record      *)
(* store behind select_query (other processes delete records), the ORM     *)
(* session that expires loaded instances, the event producer, the counter  *)
(* synchronize_host_count, the interrupt predicate and the consumer that   *)
(* pulls outcomes from the generator.                                      *)
(***************************************************************************)
EXTENDS Integers, Sequences, FiniteSets

(* ------------------------------ bounds --------------------------------- *)

\* Largest number of records of the selection when the sweep is constructed.
MaxRecords == 3

\* Largest chunk_size handed to synchronize_hosts.
MaxChunk == 2

\* Largest number of records other processes delete during one sweep.
MaxDeletes == 1

\* Largest number of days that pass during one sweep.
MaxTime == 1

(* -------------------------- program constants -------------------------- *)

WARN_DAYS_AFTER == 7

DELETE_DAYS_AFTER == 14

(* ------------------------------- state --------------------------------- *)

VARIABLES
    store,        \* select_query: the ids of the matching records, in selection order
    store0,       \* history: the selection when the sweep was constructed
    mutated,      \* history: another process has changed the selection since then
    expired,      \* ids whose loaded instance has instance_state(host).expired
    policy,       \* the durations handed to CullingConfig, in days
    chunk_size,   \* argument chunk_size
    interrupted,  \* the value interrupt() returns when called
    start,        \* local start
    host_list,    \* the rows of the chunk being iterated
    idx,          \* position of host in host_list (0: iteration not begun)
    sync_up,      \* local sync_up
    event,        \* locals serialized_host, event and headers of lines 29-32
    now,          \* the wall-clock time, in days
    other,        \* the locals of a second sweep run by the same process
    pc,           \* where the generator stands
    error,        \* the exception that left the generator, "none" if none
    events,       \* the write_event calls received by event_producer, in order
    counter,      \* synchronize_host_count.inc() calls made
    outcomes,     \* the pairs (host.id, sync_up) yielded, in order
    polls,        \* history: interrupt() calls made
    trace         \* history: what the sweep and interrupt's owner did, in order

vars == <<store, store0, mutated, expired, policy, chunk_size, interrupted, start,
          host_list, idx, sync_up, event, now, other, pc, error, events, counter, outcomes,
          polls, trace>>

Records == 1..MaxRecords

\* The results of event_producer.write_event(..., wait=True): acknowledged;
\* delivery failed and logged by the producer, the call returns; the call raises.
SinkResults == {"ack", "failed", "raise"}

(* ----------------------------- helpers --------------------------------- *)

Min(a, b) == IF a <= b THEN a ELSE b

\* select_query.offset(n).limit(m): up to m records from the n-th matching record on.
OffsetLimit(s, n, m) ==
    IF n >= Len(s) THEN <<>> ELSE SubSeq(s, n + 1, Min(Len(s), n + m))

\* s without its i-th element.
RemoveAt(s, i) == SubSeq(s, 1, i - 1) \o SubSeq(s, i + 1, Len(s))

\* Mutant of ConfiguredPolicy: the two constants are handed over in each
\* other's place.
ConfiguredPolicySwapped ==
    [stale_warning_offset_delta |-> DELETE_DAYS_AFTER, culled_offset_delta |-> WARN_DAYS_AFTER]

\* The policy _staleness_timestamps hands to CullingConfig.
ConfiguredPolicy ==
    [stale_warning_offset_delta |-> WARN_DAYS_AFTER, culled_offset_delta |-> DELETE_DAYS_AFTER]

\* Mutant of should_synchronize: the expiry of the instance is not looked at.
should_synchronize_always(h) == TRUE

\* _should_synchronize(host)
should_synchronize(h) == h \notin expired

\* host of the for loop
host == host_list[idx]

\* app.culling's CullingConfig: a policy has both durations, neither negative.
CullingConfigAccepts(p) ==
    /\ DOMAIN p = {"stale_warning_offset_delta", "culled_offset_delta"}
    /\ p.stale_warning_offset_delta >= 0
    /\ p.culled_offset_delta >= 0

\* host.canonical_facts: the records with an odd id have an insights_id, the
\* others have none.
canonical_facts(h) == IF h % 2 = 1 THEN [insights_id |-> h] ELSE [k \in {} |-> 0]

\* dict.get(key): the value in a sequence of one, the empty sequence for None.
Get(d, key) == IF key \in DOMAIN d THEN <<d[key]>> ELSE << >>

\* app.queue.events' message_headers(event_type, insights_id)
message_headers(event_type, insights_id) ==
    [event_type |-> event_type, insights_id |-> insights_id]

\* The timestamps serialize_host takes from app.culling's Timestamps(config) for a
\* decision made at time T: T plus each offset of the policy.
StalenessTimestamps(p, T) ==
    [stale_warning_at |-> T + p.stale_warning_offset_delta,
     culled_at |-> T + p.culled_offset_delta]

\* The locals of lines 29-32 before the first live record.
NoEvent == [type |-> "none"]

\* The locals of a generator of synchronize_hosts over the selection s in chunks
\* of c, before its first line has run.
NewSweep(s, c) ==
    [store |-> s, chunk_size |-> c, start |-> 0, host_list |-> << >>, idx |-> 0,
     sync_up |-> FALSE, event |-> NoEvent, pc |-> "created", error |-> "none",
     outcomes |-> << >>]

\* No second sweep is run.
NoSweep == [NewSweep(<< >>, 1) EXCEPT !.pc = "done"]

\* Mutant of AfterBuild: the insights_id is taken with canonical_facts[...], which
\* raises for a record that has none.
AfterBuildRequireId(insights_id) == IF insights_id = << >> THEN "failed" ELSE "write"

\* lines 31-34: whatever insights_id is, the headers are built and line 34 follows
AfterBuild(insights_id) == "write"

\* Mutant of NextStart: the offset moves one record too far.
NextStartSkip(s, c) == s + c + 1

\* Mutant of NextStart: the offset moves by one record, not by one chunk.
NextStartByOne(s, c) == s + 1

\* line 38: start += chunk_size
NextStart(s, c) == s + c

\* Mutant of AfterCheck: inc() stands outside the if, so it runs for every record.
AfterCheckCountAll(live) == IF live THEN "build" ELSE "inc"

\* Mutant of AfterCheck: the event of a live record is never built or written.
AfterCheckNoWrite(live) == IF live THEN "inc" ELSE "emit"

\* line 28: if sync_up: ... ; line 37 follows either way
AfterCheck(live) == IF live THEN "build" ELSE "emit"

\* Mutant of AfterWrite: an exception of write_event is swallowed.
AfterWriteSwallow(r) == "inc"

\* Mutant of AfterWrite: a delivery failure is answered by writing again.
AfterWriteRetry(r) == IF r = "raise" THEN "failed" ELSE IF r = "failed" THEN "write" ELSE "inc"

\* Mutant of AfterWrite: inc() is skipped.
AfterWriteNoInc(r) == IF r = "raise" THEN "failed" ELSE "emit"

\* lines 34-35: write_event returns (with its answer r) and inc() follows, or it
\* raises and the exception leaves the generator
AfterWrite(r) == IF r = "raise" THEN "failed" ELSE "inc"

\* Mutant of AfterPoll: the answer of interrupt() is ignored.
AfterPollNoReturn(stop) == "while"

\* Mutant of AfterPoll: an observed interrupt raises instead of returning.
AfterPollRaise(stop) == IF stop THEN "failed" ELSE "while"

\* lines 41-42: if interrupt(): return; else back to the while of line 24
AfterPoll(stop) == IF stop THEN "done" ELSE "while"

\* The history gets one more entry.
Log(e) == trace' = Append(trace, e)

\* The generator has returned or an exception has left it.
Ended == pc \in {"done", "failed"}

(* ------------------------------- Init ---------------------------------- *)

\* The state after synchronize_hosts(select_query, event_producer, chunk_size,
\* interrupt) has returned the generator: no line of its body has run yet.
InitWith(p) ==
    /\ \E n \in 0..MaxRecords : store = [i \in 1..n |-> i]
    /\ store0 = store
    /\ mutated = FALSE
    /\ expired = {}
    /\ policy = p
    /\ chunk_size \in 1..MaxChunk
    /\ interrupted \in BOOLEAN
    /\ trace = IF interrupted THEN << <<"interrupt", 0>> >> ELSE << >>
    /\ start = 0
    /\ host_list = << >>
    /\ idx = 0
    /\ sync_up = FALSE
    /\ event = NoEvent
    /\ now = 0
    /\ other = NoSweep
    /\ pc = "created"
    /\ error = "none"
    /\ events = << >>
    /\ counter = 0
    /\ outcomes = << >>
    /\ polls = 0

Init == InitWith(ConfiguredPolicy)

\* The policies of the sweeps of SpecPolicy: WARN_DAYS_AFTER and
\* DELETE_DAYS_AFTER are module globals that _staleness_timestamps reads when it
\* is called, here also holding a negative duration, or one duration not given.
Policies ==
    { ConfiguredPolicy,
      [stale_warning_offset_delta |-> 0 - WARN_DAYS_AFTER,
       culled_offset_delta |-> DELETE_DAYS_AFTER],
      [stale_warning_offset_delta |-> WARN_DAYS_AFTER] }

InitPolicy == \E p \in Policies : InitWith(p)

(* --------------------------- the consumer ------------------------------ *)

\* next(generator): runs the body from its start, or resumes it after the yield.
Pull ==
    /\ pc \in {"created", "yield"}
    /\ pc' = IF pc = "created" THEN "total" ELSE "for"
    /\ Log(<<"pull", 0>>)
    /\ UNCHANGED <<other, now, event, store, store0, mutated, expired, policy, chunk_size, interrupted,
                   start, host_list, idx, sync_up, error, events, counter, outcomes, polls>>

(* --------------------------- the generator ----------------------------- *)

\* line 23: print("Total number: {}".format(select_query.count()))
Total ==
    /\ pc = "total"
    /\ pc' = "while"
    /\ Log(<<"total", Len(store)>>)
    /\ UNCHANGED <<other, now, event, store, store0, mutated, expired, policy, chunk_size, interrupted,
                   start, host_list, idx, sync_up, error, events, counter, outcomes, polls>>

\* line 24: while select_query.offset(start).limit(chunk_size).count():
WhileCount ==
    /\ pc = "while"
    /\ pc' = IF Len(OffsetLimit(store, start, chunk_size)) # 0 THEN "read" ELSE "done"
    /\ Log(<<"count", Len(OffsetLimit(store, start, chunk_size))>>)
    /\ UNCHANGED <<other, now, event, store, store0, mutated, expired, policy, chunk_size, interrupted,
                   start, host_list, idx, sync_up, error, events, counter, outcomes, polls>>

\* lines 25-26: host_list = select_query.offset(start).limit(chunk_size), whose
\* rows are fetched when the for statement starts to iterate it.
ReadChunk ==
    /\ pc = "read"
    /\ host_list' = OffsetLimit(store, start, chunk_size)
    /\ idx' = 0
    /\ pc' = "for"
    /\ Log(<<"read", Len(OffsetLimit(store, start, chunk_size))>>)
    /\ UNCHANGED <<other, now, event, store, store0, mutated, expired, policy, chunk_size, interrupted,
                   start, sync_up, error, events, counter, outcomes, polls>>

\* Mutant of StoreFails: the exception is caught and the generator returns.
StoreFailsSwallowed ==
    /\ pc \in {"total", "while", "read"}
    /\ pc' = "done"
    /\ Log(<<"store_error", 0>>)
    /\ UNCHANGED <<other, now, event, store, store0, mutated, expired, policy, chunk_size, interrupted,
                   start, host_list, idx, sync_up, error, events, counter, outcomes, polls>>

\* A store call of line 23, 24 or 26 raises: nothing catches it.
StoreFails ==
    /\ pc \in {"total", "while", "read"}
    /\ pc' = "failed"
    /\ error' = "store"
    /\ Log(<<"store_error", 0>>)
    /\ UNCHANGED <<other, now, event, store, store0, mutated, expired, policy, chunk_size, interrupted,
                   start, host_list, idx, sync_up, events, counter, outcomes, polls>>

\* lines 26-28: the next host of host_list, sync_up = _should_synchronize(host)
\* and the branch on it. The history records what the session holds about the
\* instance at that moment: "removed" if it is expired, "live" if not.
NextHost ==
    /\ pc = "for"
    /\ idx < Len(host_list)
    /\ idx' = idx + 1
    /\ sync_up' = should_synchronize(host_list[idx + 1])
    /\ pc' = AfterCheck(should_synchronize(host_list[idx + 1]))
    /\ Log(<<IF host_list[idx + 1] \in expired THEN "removed" ELSE "live", host_list[idx + 1]>>)
    /\ UNCHANGED <<other, now, event, store, store0, mutated, expired, policy, chunk_size, interrupted,
                   start, host_list, error, events, counter, outcomes, polls>>

\* Mutant of EndChunk: interrupt() is looked at for every record, and the for
\* loop is left as soon as it returns True.
EndChunkEarly ==
    /\ pc = "for"
    /\ (idx >= Len(host_list) \/ interrupted)
    /\ pc' = "advance"
    /\ UNCHANGED <<other, now, event, store, store0, mutated, expired, policy, chunk_size, interrupted,
                   start, host_list, idx, sync_up, error, events, counter, outcomes,
                   polls, trace>>

\* line 26 with host_list exhausted: the for loop is left.
EndChunk ==
    /\ pc = "for"
    /\ idx >= Len(host_list)
    /\ pc' = "advance"
    /\ UNCHANGED <<other, now, event, store, store0, mutated, expired, policy, chunk_size, interrupted,
                   start, host_list, idx, sync_up, error, events, counter, outcomes,
                   polls, trace>>

\* lines 29-32: serialize_host(host, _staleness_timestamps(), EGRESS_HOST_FIELDS),
\* build_event and message_headers, with a policy CullingConfig accepts.
BuildEvent ==
    /\ pc = "build"
    /\ CullingConfigAccepts(policy)
    /\ event' = [type |-> "updated",
                 id |-> host,
                 decided_at |-> now,
                 timestamps |-> StalenessTimestamps(policy, now),
                 headers |-> message_headers("updated",
                                             Get(canonical_facts(host), "insights_id"))]
    /\ pc' = AfterBuild(Get(canonical_facts(host), "insights_id"))
    /\ error' = IF AfterBuild(Get(canonical_facts(host), "insights_id")) = "failed"
                THEN "facts" ELSE error
    /\ Log(<<"build", host>>)
    /\ UNCHANGED <<other, now, store, store0, mutated, expired, policy, chunk_size, interrupted,
                   start, host_list, idx, sync_up, events, counter, outcomes, polls>>

\* Mutant of RejectPolicy: the policy is built and rejected at the first line of
\* the body, before any store call.
RejectPolicyEager ==
    /\ pc = "total"
    /\ ~CullingConfigAccepts(policy)
    /\ pc' = "failed"
    /\ error' = "policy"
    /\ Log(<<"policy_error", 0>>)
    /\ UNCHANGED <<other, now, event, store, store0, mutated, expired, policy, chunk_size, interrupted,
                   start, host_list, idx, sync_up, events, counter, outcomes, polls>>

\* line 29 with a policy CullingConfig rejects: _staleness_timestamps() raises.
RejectPolicy ==
    /\ pc = "build"
    /\ ~CullingConfigAccepts(policy)
    /\ pc' = "failed"
    /\ error' = "policy"
    /\ Log(<<"policy_error", host>>)
    /\ UNCHANGED <<other, now, event, store, store0, mutated, expired, policy, chunk_size, interrupted,
                   start, host_list, idx, sync_up, events, counter, outcomes, polls>>

\* line 34: event_producer.write_event(event, str(serialized_host), headers,
\* Topic.events, wait=True) returns once the producer has its answer, or raises.
\* The history records the answer: "ack", "failed" or "raise".
WriteEventWith(answers) ==
    /\ pc = "write"
    /\ \E r \in answers :
        /\ events' = Append(events, [id |-> event.id, type |-> event.type,
                                     topic |-> "events", wait |-> TRUE, result |-> r,
                                     headers |-> event.headers,
                                     decided_at |-> event.decided_at,
                                     timestamps |-> event.timestamps])
        /\ pc' = AfterWrite(r)
        /\ error' = IF AfterWrite(r) = "failed" THEN "sink" ELSE error
        /\ Log(<<r, host>>)
    /\ UNCHANGED <<other, now, event, store, store0, mutated, expired, policy, chunk_size, interrupted,
                   start, host_list, idx, sync_up, counter, outcomes, polls>>

\* line 34 with an event producer that may give any of its answers.
WriteEvent == WriteEventWith(SinkResults)

\* line 34 with an event producer that acknowledges every event.
WriteEventAcked == WriteEventWith({"ack"})

\* The answers of write_event while two sweeps share the producer: the write is
\* acknowledged, or write_event raises.
SharedSinkResults == {"ack", "raise"}

\* line 34 of the first of two sweeps that share the producer.
WriteEventShared == WriteEventWith(SharedSinkResults)

\* line 35: synchronize_host_count.inc()
Inc ==
    /\ pc = "inc"
    /\ counter' = counter + 1
    /\ pc' = "emit"
    /\ Log(<<"inc", host>>)
    /\ UNCHANGED <<other, now, event, store, store0, mutated, expired, policy, chunk_size, interrupted,
                   start, host_list, idx, sync_up, error, events, outcomes, polls>>

\* Mutant of Yield: the record whose outcome is yielded is deleted from the store.
YieldAndDelete ==
    /\ pc = "emit"
    /\ outcomes' = Append(outcomes, <<host, sync_up>>)
    /\ pc' = "yield"
    /\ store' = SelectSeq(store, LAMBDA h : h # host)
    /\ Log(<<"yield", host>>)
    /\ UNCHANGED <<other, now, event, store0, mutated, expired, policy, chunk_size, interrupted,
                   start, host_list, idx, sync_up, error, events, counter, polls>>

\* Mutant of Yield: the outcome is put in a list and the loop goes on without
\* waiting for the consumer.
YieldNoSuspend ==
    /\ pc = "emit"
    /\ outcomes' = Append(outcomes, <<host, sync_up>>)
    /\ pc' = "for"
    /\ Log(<<"yield", host>>)
    /\ UNCHANGED <<other, now, event, store, store0, mutated, expired, policy, chunk_size, interrupted,
                   start, host_list, idx, sync_up, error, events, counter, polls>>

\* line 37: yield host.id, sync_up
Yield ==
    /\ pc = "emit"
    /\ outcomes' = Append(outcomes, <<host, sync_up>>)
    /\ pc' = "yield"
    /\ Log(<<"yield", host>>)
    /\ UNCHANGED <<other, now, event, store, store0, mutated, expired, policy, chunk_size, interrupted,
                   start, host_list, idx, sync_up, error, events, counter, polls>>

\* line 38: start += chunk_size
Advance ==
    /\ pc = "advance"
    /\ start' = NextStart(start, chunk_size)
    /\ pc' = "poll"
    /\ UNCHANGED <<other, now, event, store, store0, mutated, expired, policy, chunk_size, interrupted,
                   host_list, idx, sync_up, error, events, counter, outcomes, polls, trace>>

\* lines 41-42: if interrupt(): return
Poll ==
    /\ pc = "poll"
    /\ polls' = polls + 1
    /\ pc' = AfterPoll(interrupted)
    /\ Log(<<"poll", IF interrupted THEN 1 ELSE 0>>)
    /\ UNCHANGED <<other, now, event, store, store0, mutated, expired, policy, chunk_size, interrupted,
                   start, host_list, idx, sync_up, error, events, counter, outcomes>>

(* -------------------------- the environment ---------------------------- *)

\* Another process deletes a record of the selection. The sweep sees the store
\* only in its reads at lines 23, 24 and 25, and a deletion changes nothing else,
\* so a deletion made at any moment is taken here right before the read that is
\* the first to see it.
DeleteRecord ==
    /\ pc \in {"total", "while", "read"}
    /\ Len(store0) - Len(store) < MaxDeletes
    /\ \E i \in 1..Len(store) : store' = RemoveAt(store, i)
    /\ mutated' = TRUE
    /\ UNCHANGED <<other, now, event, store0, expired, policy, chunk_size, interrupted, start, host_list,
                   idx, sync_up, pc, error, events, counter, outcomes, polls, trace>>

\* The session expires the loaded instance of a host the loop has yet to reach.
ExpireHost ==
    /\ ~Ended
    /\ \E i \in (idx + 1)..Len(host_list) :
        /\ host_list[i] \notin expired
        /\ expired' = expired \cup {host_list[i]}
    /\ UNCHANGED <<other, now, event, store, store0, mutated, policy, chunk_size, interrupted, start,
                   host_list, idx, sync_up, pc, error, events, counter, outcomes, polls,
                   trace>>

\* A day passes.
Tick ==
    /\ ~Ended
    /\ now < MaxTime
    /\ now' = now + 1
    /\ UNCHANGED <<other, event, store, store0, mutated, expired, policy, chunk_size,
                   interrupted, start, host_list, idx, sync_up, pc, error, events,
                   counter, outcomes, polls, trace>>

\* interrupt() starts to return True, and goes on doing so.
Interrupt ==
    /\ ~Ended
    /\ ~interrupted
    /\ interrupted' = TRUE
    /\ Log(<<"interrupt", 0>>)
    /\ UNCHANGED <<other, now, event, store, store0, mutated, expired, policy, chunk_size, start, host_list,
                   idx, sync_up, pc, error, events, counter, outcomes, polls>>

(* ------------------------------- Next ---------------------------------- *)

Sweep ==
    \/ Total
    \/ WhileCount
    \/ ReadChunk
    \/ StoreFails
    \/ NextHost
    \/ EndChunk
    \/ BuildEvent
    \/ WriteEvent
    \/ Inc
    \/ Yield
    \/ Advance
    \/ Poll

Environment ==
    \/ DeleteRecord
    \/ ExpireHost
    \/ Interrupt

Next == Pull \/ Sweep \/ Environment

Spec == Init /\ [][Next]_vars

\* The consumer keeps pulling and the generator's code keeps running.
Fairness == WF_vars(Pull) /\ WF_vars(Sweep)

LiveSpec == Init /\ [][Next]_vars /\ Fairness

\* The sweeps with the clock running, over a selection no other process changes.
NextClock == Pull \/ Sweep \/ ExpireHost \/ Interrupt \/ Tick

SpecClock == Init /\ [][NextClock]_vars

(* --------------------------- a second sweep --------------------------- *)

\* Largest number of records of each of the two partitions swept concurrently.
MaxPartition == 2

\* The locals of the second sweep after its next step: the consumer's next() at
\* the start and after a yield, else the next line of synchronize_hosts, with
\* the default interrupt (lambda: False) and r the answer of write_event.
OtherAfterStep(o, r) ==
    CASE o.pc = "created" -> [o EXCEPT !.pc = "total"]
      [] o.pc = "yield"   -> [o EXCEPT !.pc = "for"]
      [] o.pc = "total"   -> [o EXCEPT !.pc = "while"]
      [] o.pc = "while"   ->
            [o EXCEPT !.pc = IF Len(OffsetLimit(o.store, o.start, o.chunk_size)) # 0
                             THEN "read" ELSE "done"]
      [] o.pc = "read"    ->
            [o EXCEPT !.host_list = OffsetLimit(o.store, o.start, o.chunk_size),
                      !.idx = 0,
                      !.pc = "for"]
      [] o.pc = "for"     ->
            IF o.idx < Len(o.host_list)
            THEN [o EXCEPT !.idx = o.idx + 1,
                           !.sync_up = should_synchronize(o.host_list[o.idx + 1]),
                           !.pc = AfterCheck(should_synchronize(o.host_list[o.idx + 1]))]
            ELSE [o EXCEPT !.pc = "advance"]
      [] o.pc = "build"   ->
            [o EXCEPT !.event = [type |-> "updated",
                                 id |-> o.host_list[o.idx],
                                 decided_at |-> now,
                                 timestamps |-> StalenessTimestamps(policy, now),
                                 headers |-> message_headers("updated",
                                    Get(canonical_facts(o.host_list[o.idx]), "insights_id"))],
                      !.pc = AfterBuild(Get(canonical_facts(o.host_list[o.idx]),
                                            "insights_id"))]
      [] o.pc = "write"   ->
            [o EXCEPT !.pc = AfterWrite(r),
                      !.error = IF AfterWrite(r) = "failed" THEN "sink" ELSE o.error]
      [] o.pc = "inc"     -> [o EXCEPT !.pc = "emit"]
      [] o.pc = "emit"    ->
            [o EXCEPT !.outcomes = Append(o.outcomes, <<o.host_list[o.idx], o.sync_up>>),
                      !.pc = "yield"]
      [] o.pc = "advance" ->
            [o EXCEPT !.start = NextStart(o.start, o.chunk_size), !.pc = "poll"]
      [] o.pc = "poll"    -> [o EXCEPT !.pc = AfterPoll(FALSE)]

\* A step of the second sweep or of its consumer. It writes to the same event
\* producer (line 34) and increments the same counter (line 35), in one step.
OtherStep ==
    /\ other.pc \notin {"done", "failed"}
    /\ \E r \in SharedSinkResults :
        /\ other' = OtherAfterStep(other, r)
        /\ events' = IF other.pc = "write"
                     THEN Append(events, [id |-> other.event.id, type |-> other.event.type,
                                          topic |-> "events", wait |-> TRUE, result |-> r,
                                          headers |-> other.event.headers,
                                          decided_at |-> other.event.decided_at,
                                          timestamps |-> other.event.timestamps])
                     ELSE events
    /\ counter' = IF other.pc = "inc" THEN counter + 1 ELSE counter
    /\ UNCHANGED <<now, event, store, store0, mutated, expired, policy, chunk_size,
                   interrupted, start, host_list, idx, sync_up, pc, error, outcomes,
                   polls, trace>>

\* The session expires the loaded instance of a host the second sweep has yet to
\* reach.
OtherExpireHost ==
    /\ other.pc \notin {"done", "failed"}
    /\ \E i \in (other.idx + 1)..Len(other.host_list) :
        /\ other.host_list[i] \notin expired
        /\ expired' = expired \cup {other.host_list[i]}
    /\ UNCHANGED <<other, now, event, store, store0, mutated, policy, chunk_size,
                   interrupted, start, host_list, idx, sync_up, pc, error, events,
                   counter, outcomes, polls, trace>>

\* Two generators over disjoint partitions of the store: records 1..n of the
\* first, the next m records of the second, each with its own chunk size.
InitTwo ==
    /\ \E n \in 0..MaxPartition, m \in 0..MaxPartition, c \in 1..MaxChunk :
        /\ store = [i \in 1..n |-> i]
        /\ other = NewSweep([i \in 1..m |-> n + i], c)
    /\ store0 = store
    /\ mutated = FALSE
    /\ expired = {}
    /\ policy = ConfiguredPolicy
    /\ chunk_size \in 1..MaxChunk
    /\ interrupted = FALSE
    /\ trace = << >>
    /\ start = 0
    /\ host_list = << >>
    /\ idx = 0
    /\ sync_up = FALSE
    /\ event = NoEvent
    /\ now = 0
    /\ pc = "created"
    /\ error = "none"
    /\ events = << >>
    /\ counter = 0
    /\ outcomes = << >>
    /\ polls = 0

NextTwo ==
    \/ Pull
    \/ Total
    \/ WhileCount
    \/ ReadChunk
    \/ NextHost
    \/ EndChunk
    \/ BuildEvent
    \/ WriteEventShared
    \/ Inc
    \/ Yield
    \/ Advance
    \/ Poll
    \/ ExpireHost
    \/ OtherStep
    \/ OtherExpireHost

SpecTwo == InitTwo /\ [][NextTwo]_vars

\* The end-to-end scenario: a selection of 5 records that no other process
\* changes, swept in chunks of 2 with an interrupt() that stays False, a store
\* that answers and an event producer that acknowledges every event; the session
\* may expire any instance before its liveness check.
ScenarioStore == <<1, 2, 3, 4, 5>>

InitScenario ==
    /\ store = ScenarioStore
    /\ store0 = store
    /\ mutated = FALSE
    /\ expired = {}
    /\ policy = ConfiguredPolicy
    /\ chunk_size = 2
    /\ interrupted = FALSE
    /\ trace = << >>
    /\ start = 0
    /\ host_list = << >>
    /\ idx = 0
    /\ sync_up = FALSE
    /\ event = NoEvent
    /\ now = 0
    /\ other = NoSweep
    /\ pc = "created"
    /\ error = "none"
    /\ events = << >>
    /\ counter = 0
    /\ outcomes = << >>
    /\ polls = 0

NextScenario ==
    \/ Pull
    \/ Total
    \/ WhileCount
    \/ ReadChunk
    \/ NextHost
    \/ EndChunk
    \/ BuildEvent
    \/ WriteEventAcked
    \/ Inc
    \/ Yield
    \/ Advance
    \/ Poll
    \/ ExpireHost

SpecScenario == InitScenario /\ [][NextScenario]_vars

\* The sweeps under any policy of Policies.
NextPolicy == Next \/ RejectPolicy

SpecPolicy == InitPolicy /\ [][NextPolicy]_vars

(* ------------------------ reading the history -------------------------- *)

\* What the sweep did, without the entries of interrupt's owner.
SweepTrace == SelectSeq(trace, LAMBDA e : e[1] # "interrupt")

\* The entries of t whose operation is one of ops.
Only(t, ops) == SelectSeq(t, LAMBDA e : e[1] \in ops)

\* The ids (second components) of the entries of a history.
Ids(t) == [i \in 1..Len(t) |-> t[i][2]]

\* The record ids of the outcomes yielded so far.
OutcomeIds == [i \in 1..Len(outcomes) |-> outcomes[i][1]]

Checks == {"live", "removed"}

Writes == {"ack", "failed", "raise"}

\* Everything the sweep does on behalf of one record.
VisitOps == Checks \cup Writes \cup {"build", "inc", "yield"}

\* The number of outcomes yielded with synchronized = true.
TrueOutcomes == Cardinality({i \in 1..Len(outcomes) : outcomes[i][2]})

\* ceil(n / c)
CeilDiv(n, c) == (n + c - 1) \div c

(* ------------------------------ claims --------------------------------- *)

\* C1: while the selection has not changed since the sweep was constructed, the
\* records of the outcomes yielded so far are the first records of the selection,
\* each once and in selection order; and when the sweep has ended normally with
\* the cancellation predicate still false, they are all N records of it (none
\* for N = 0), whatever the chunk size.
C1_ChunkingCompleteness ==
    ~mutated =>
        /\ Len(outcomes) <= Len(store0)
        /\ OutcomeIds = SubSeq(store0, 1, Len(outcomes))
        /\ (pc = "done" /\ ~interrupted) => OutcomeIds = store0

\* A sweep of 3 unchanged records in chunks of 2 (N not a multiple of C) has ended.
C1_Witness ==
    /\ pc = "done" /\ ~mutated /\ ~interrupted
    /\ Len(store0) = 3 /\ chunk_size = 2 /\ Len(outcomes) = 3

\* The last chunk read before position i of the history (0 if none).
LastRead(i) ==
    LET RECURSIVE back(_)
        back(k) == IF k = 0 THEN 0
                   ELSE IF trace[k][1] = "read" THEN k ELSE back(k - 1)
    IN  back(i - 1)

\* At position i of the history the chunk read last had records, and an outcome
\* had been yielded for each of them.
ChunkYieldedAt(i) ==
    LET r == LastRead(i)
    IN  /\ r > 0
        /\ trace[r][2] >= 1
        /\ Cardinality({j \in (r + 1)..(i - 1) : trace[j][1] = "yield"}) = trace[r][2]

\* At position i of the history the poll that follows the chunk read last has
\* not been made yet.
BeforePollAt(i) ==
    \A j \in (LastRead(i) + 1)..(i - 1) : trace[j][1] # "poll"

\* C2 as stated: when the cancellation predicate turns true (and stays true) at
\* any moment after the last outcome of a chunk has been yielded, no record is
\* visited after that moment.
C2_Original ==
    \A i \in 1..Len(trace) :
        (trace[i][1] = "interrupt" /\ ChunkYieldedAt(i)) =>
            \A j \in (i + 1)..Len(trace) : trace[j][1] \notin VisitOps

\* C2: when the cancellation predicate turns true (and stays true) after the last
\* outcome of a chunk has been yielded and before the poll that follows that
\* chunk, the sweep reads and visits nothing more (no chunk count, chunk read,
\* liveness check, event build, sink write, increment or outcome follows), and
\* the outcomes of all records of that chunk are the last outcomes yielded.
C2_CancellationBoundary ==
    \A i \in 1..Len(trace) :
        (trace[i][1] = "interrupt" /\ ChunkYieldedAt(i) /\ BeforePollAt(i)) =>
            /\ \A j \in (i + 1)..Len(trace) : trace[j][1] \notin VisitOps \cup {"count", "read"}
            /\ Len(outcomes) >= Len(host_list)
            /\ SubSeq(OutcomeIds, Len(outcomes) - Len(host_list) + 1, Len(outcomes)) = host_list

\* The predicate turned true between the last outcome of a chunk and its poll,
\* the sweep has ended and the selection still has records behind that chunk.
C2_Witness ==
    /\ pc = "done"
    /\ Len(OffsetLimit(store, start, chunk_size)) > 0
    /\ \E i \in 1..Len(trace) :
        trace[i][1] = "interrupt" /\ ChunkYieldedAt(i) /\ BeforePollAt(i)

\* C3: a record of a chunk whose instance is expired at its liveness check gets
\* the outcome (id, false) at once: no event is built or written and the counter
\* is not incremented for it, nothing is raised, and after the consumer's next
\* pull the sweep goes on to the liveness check of the next record (or, at the
\* end of the chunk, to the poll).
C3_ConcurrentDeletion ==
    LET st == SweepTrace
        ys == Only(st, {"yield"})
    IN  \A i \in 1..Len(st) :
            st[i][1] = "removed" =>
                /\ (pc = "emit" /\ i = Len(st)) => (~sync_up /\ error = "none")
                /\ i + 1 <= Len(st) =>
                    /\ st[i + 1] = <<"yield", st[i][2]>>
                    /\ outcomes[Len(Only(SubSeq(st, 1, i + 1), {"yield"}))] = <<st[i][2], FALSE>>
                /\ i + 2 <= Len(st) => st[i + 2][1] = "pull"
                /\ i + 3 <= Len(st) => st[i + 3][1] \in Checks \cup {"poll"}

\* A record was found expired, its outcome yielded, and the next record checked.
C3_Witness ==
    LET st == SweepTrace
    IN  \E i \in 1..Len(st) :
            /\ st[i][1] = "removed"
            /\ i + 3 <= Len(st)
            /\ st[i + 3][1] \in Checks
            /\ error = "none"

\* C4: whenever the sweep is suspended at a yield or has ended (normally, by
\* cancellation or by an exception), the number of synchronize_host_count
\* increments equals the number of outcomes yielded with synchronized = true.
C4_CounterFidelity ==
    pc \in {"created", "yield", "done", "failed"} => counter = TrueOutcomes

\* A sweep has ended with increments, a delivery failure and a false outcome.
C4_Witness ==
    /\ Ended
    /\ counter >= 1
    /\ \E i \in 1..Len(events) : events[i].result = "failed"
    /\ \E i \in 1..Len(outcomes) : ~outcomes[i][2]

\* C5: the write_event calls are made for exactly the visits that found the
\* record live, one each and in the order of the visits, with event type
\* "updated", topic events and wait = true; a visit that found the record expired
\* makes none. So except between a liveness check and its write, the number of
\* sink writes equals the number of visits that found the record live.
C5_OneEventPerLiveVisit ==
    LET lives == Ids(Only(trace, {"live"}))
        sent  == [i \in 1..Len(events) |-> events[i].id]
    IN  /\ \A i \in 1..Len(events) :
            events[i].type = "updated" /\ events[i].topic = "events" /\ events[i].wait
        /\ IF pc \in {"build", "write"}
           THEN sent = SubSeq(lives, 1, Len(lives) - 1)
           ELSE sent = lives

\* A sweep has ended with two events written and a record found expired.
C5_Witness ==
    /\ pc = "done"
    /\ Len(events) >= 2
    /\ Only(trace, {"removed"}) # << >>

\* The number of outcomes yielded when the sweep stood at position i of st.
YieldsUpTo(st, i) == Len(Only(SubSeq(st, 1, i), {"yield"}))

\* C6 as stated: at the end of a sweep the number of counter increments equals
\* the number of writes the sink acknowledged.
C6_Original ==
    Ended => counter = Cardinality({i \in 1..Len(events) : events[i].result = "ack"})

\* C6: the counter is incremented exactly once, directly after the call, for each
\* write_event call that returned, whether the sink acknowledged the event or
\* its delivery failed, and not for a call that raised: except between a write
\* and its increment, the number of increments equals the number of writes that
\* returned.
C6_CounterPerReturnedWrite ==
    LET st == SweepTrace
    IN  /\ pc # "inc" =>
            counter = Cardinality({i \in 1..Len(events) : events[i].result # "raise"})
        /\ \A i \in 1..Len(st) :
            /\ st[i][1] \in {"ack", "failed"} =>
                (i + 1 <= Len(st) => st[i + 1] = <<"inc", st[i][2]>>)
            /\ st[i][1] = "raise" => i = Len(st)
            /\ st[i][1] = "inc" => (i > 1 /\ st[i - 1][1] \in {"ack", "failed"})

\* A sweep has ended by a raising write after an acknowledged write and a write
\* whose delivery failed.
C6_Witness ==
    /\ pc = "failed" /\ error = "sink"
    /\ \E i \in 1..Len(events) : events[i].result = "ack"
    /\ \E i \in 1..Len(events) : events[i].result = "failed"

\* C7: after a write_event call that returned with a delivery failure the sweep
\* does not write again for that record: it increments the counter, yields
\* (id, true) and, after the consumer's next pull, goes on to the liveness check
\* of another record (or, at the end of the chunk, to the poll).
C7_DeliveryFailure ==
    LET st == SweepTrace
    IN  \A i \in 1..Len(st) :
            st[i][1] = "failed" =>
                /\ i + 1 <= Len(st) => st[i + 1] = <<"inc", st[i][2]>>
                /\ i + 2 <= Len(st) =>
                    /\ st[i + 2] = <<"yield", st[i][2]>>
                    /\ outcomes[YieldsUpTo(st, i + 2)] = <<st[i][2], TRUE>>
                /\ i + 3 <= Len(st) => st[i + 3][1] = "pull"
                /\ i + 4 <= Len(st) =>
                    \/ st[i + 4][1] = "poll"
                    \/ st[i + 4][1] \in Checks /\ st[i + 4][2] # st[i][2]

\* A delivery failed, (id, true) was yielded and the next record was checked.
C7_Witness ==
    LET st == SweepTrace
    IN  \E i \in 1..Len(st) :
            /\ st[i][1] = "failed"
            /\ i + 4 <= Len(st)
            /\ st[i + 4][1] \in Checks
            /\ outcomes[YieldsUpTo(st, i + 2)] = <<st[i][2], TRUE>>

\* C8: the outcomes are those of the visits, in the order of the visits, at most
\* one visit being without its outcome yet; and the steps for a live record
\* come in the order liveness check, event build, write_event (returned), counter
\* increment, yield, and only then the pull that lets the next record be checked.
C8_Ordering ==
    LET st     == SweepTrace
        checks == Only(st, Checks)
        ys     == Only(st, {"yield"})
    IN  /\ Len(ys) = Len(outcomes)
        /\ Len(checks) - Len(ys) \in {0, 1}
        /\ \A k \in 1..Len(ys) :
            /\ ys[k][2] = checks[k][2]
            /\ outcomes[k] = <<checks[k][2], checks[k][1] = "live">>
        /\ \A i \in 1..Len(st) :
            st[i][1] = "live" =>
                /\ i + 1 <= Len(st) => st[i + 1] = <<"build", st[i][2]>>
                /\ i + 2 <= Len(st) => (st[i + 2][1] \in Writes /\ st[i + 2][2] = st[i][2])
                /\ i + 3 <= Len(st) => (st[i + 2][1] # "raise" /\ st[i + 3] = <<"inc", st[i][2]>>)
                /\ i + 4 <= Len(st) => st[i + 4] = <<"yield", st[i][2]>>
                /\ i + 5 <= Len(st) => st[i + 5][1] = "pull"

\* A sweep has ended after two live records and an expired one.
C8_Witness ==
    /\ pc = "done"
    /\ Len(Only(trace, {"live"})) >= 2
    /\ Len(Only(trace, {"removed"})) >= 1
    /\ Len(outcomes) >= 3

\* When the sweep has ended normally: the number of chunks processed is at most
\* ceil(N / C); and with an unchanged selection the sweep ended either at an empty
\* chunk count after exactly ceil(N / C) chunks, or by a poll that returned true.
C9_ChunkReads ==
    pc = "done" =>
        LET st     == SweepTrace
            reads  == Len(Only(st, {"read"}))
            counts == Len(Only(st, {"count"}))
        IN  /\ reads <= CeilDiv(Len(store0), chunk_size)
            /\ counts \in {reads, reads + 1}
            /\ ~mutated =>
                IF st[Len(st)] = <<"count", 0>>
                THEN reads = CeilDiv(Len(store0), chunk_size) /\ counts = reads + 1
                ELSE st[Len(st)] = <<"poll", 1>> /\ counts = reads

\* C9: with a consumer that keeps pulling, every sweep eventually ends normally
\* unless a store or sink call raises; and it ends after at most ceil(N / C)
\* processed chunks: after exactly that many and one empty chunk count when the
\* selection is unchanged, or earlier by a poll that returned true.
C9_Termination == <>(pc = "done" \/ error # "none") /\ []C9_ChunkReads

\* A sweep of 2 unchanged records in chunks of 2 has ended after 1 chunk read and
\* 2 chunk counts.
C9_Witness ==
    /\ pc = "done" /\ ~mutated /\ ~interrupted
    /\ Len(store0) = 2 /\ chunk_size = 2
    /\ Len(Only(trace, {"read"})) = 1
    /\ Len(Only(trace, {"count"})) = 2

C11_StoreFailurePropagates ==
    LET st == SweepTrace
    IN  /\ \A i \in 1..Len(st) :
            st[i][1] = "store_error" =>
                /\ i = Len(st)
                /\ pc = "failed"
                /\ error = "store"
                /\ i > 1 /\ st[i - 1][1] \in {"pull", "total", "count", "poll"}
        /\ error = "store" => (pc = "failed" /\ st[Len(st)][1] = "store_error")

\* A store call raised after an outcome had been yielded and with records of the
\* selection still unvisited.
C11_Witness ==
    /\ error = "store"
    /\ Len(outcomes) >= 1
    /\ Len(OffsetLimit(store, start, chunk_size)) > 0

\* s is an initial part of t.
IsPrefix(s, t) == Len(s) <= Len(t) /\ s = SubSeq(t, 1, Len(s))

\* C15: a step that changes the selection is no step of the sweep or of its
\* consumer: the generator stands where it stood, with the same offset, the same
\* rows and the same history, and the change is one made by another process.
C15_Frame ==
    [][store' # store =>
        /\ pc' = pc /\ start' = start /\ host_list' = host_list /\ idx' = idx
        /\ trace' = trace /\ outcomes' = outcomes /\ events' = events
        /\ mutated']_vars

\* A sweep has read chunks, checked records, written events, incremented the
\* counter and polled, and has ended with the selection as it was.
C15_Witness ==
    /\ pc = "done" /\ ~mutated /\ store = store0
    /\ Len(store) >= 2
    /\ Len(events) >= 1 /\ counter >= 1 /\ polls >= 1
    /\ Only(trace, {"removed"}) # << >>

\* C16: no step withdraws an outcome, an event or a counter increment; and the
\* step in which interrupt() is observed true ends the sweep normally, with no
\* exception, and leaves the outcomes, the events and the counter as they are.
C16_CancelKeepsEffects ==
    [][/\ IsPrefix(outcomes, outcomes')
       /\ IsPrefix(events, events')
       /\ counter' >= counter
       /\ (pc = "poll" /\ pc' # "poll" /\ interrupted) =>
            /\ pc' = "done"
            /\ error' = "none"
            /\ outcomes' = outcomes /\ events' = events /\ counter' = counter]_vars

\* A sweep was ended by the poll with outcomes, events and increments made and
\* records of the selection left unvisited.
C16_Witness ==
    /\ pc = "done" /\ error = "none"
    /\ SweepTrace[Len(SweepTrace)] = <<"poll", 1>>
    /\ Len(outcomes) >= 1 /\ Len(events) >= 1 /\ counter >= 1
    /\ Len(OffsetLimit(store, start, chunk_size)) > 0

\* C17 as stated: without cancellation the sweep ends at the first window that
\* yields no record, so no window is counted after a chunk read that returned
\* no record.
C17_Original ==
    LET st == SweepTrace
    IN  ~interrupted =>
            \A i \in 1..Len(st) :
                st[i] = <<"read", 0>> => \A j \in (i + 1)..Len(st) : st[j][1] # "count"

\* C17: the offset is chunk_size times the number of chunks processed (0 at the
\* start, raised by chunk_size after each chunk); the sweep ends normally only at
\* a chunk count of zero or at a poll that returned true, and a chunk count of
\* zero always ends it; a chunk whose count was not zero is read, and when that
\* read returns no record (the store changed between the two reads) the sweep
\* does not end there but goes on to the poll and the next window.
C17_ChunkWindow ==
    LET st == SweepTrace
    IN  /\ start = chunk_size * (polls + (IF pc = "poll" THEN 1 ELSE 0))
        /\ pc = "done" => st[Len(st)] \in {<<"count", 0>>, <<"poll", 1>>}
        /\ \A i \in 1..Len(st) :
            /\ st[i][1] = "count" =>
                IF st[i][2] = 0
                THEN i = Len(st) /\ pc = "done"
                ELSE pc # "done" \/ i < Len(st)
            /\ (st[i][1] = "count" /\ st[i][2] > 0 /\ i < Len(st)) =>
                st[i + 1][1] \in {"read", "store_error"}
            /\ (st[i] = <<"read", 0>> /\ i < Len(st)) => st[i + 1][1] = "poll"

\* A chunk was counted, another process emptied its window, the read returned no
\* record, and the sweep ended only at the count of the next window.
C17_Witness ==
    LET st == SweepTrace
    IN  /\ pc = "done" /\ ~interrupted
        /\ \E i \in 1..Len(st) : st[i] = <<"read", 0>>

\* C18: interrupt() is called once after each processed chunk and at no other
\* place: each poll comes after the outcomes of all records of the chunk read
\* last, with no other poll since that read, so at a normal end the number of
\* polls equals the number of chunks read; a predicate that turns true in the
\* middle of a chunk changes nothing for the remaining records of that chunk.
C18_PollPerChunk ==
    LET reads == Len(Only(trace, {"read"}))
    IN  /\ polls = Len(Only(trace, {"poll"}))
        /\ polls \in {reads, reads - 1}
        /\ pc \in {"while", "read", "done"} => polls = reads
        /\ \A i \in 1..Len(trace) :
            trace[i][1] = "poll" =>
                LET r == LastRead(i)
                IN  /\ r > 0
                    /\ \A j \in (r + 1)..(i - 1) : trace[j][1] # "poll"
                    /\ Cardinality({j \in (r + 1)..(i - 1) : trace[j][1] = "yield"})
                         = trace[r][2]

\* The predicate turned true in the middle of a chunk of two records and the
\* sweep has ended at the poll after that chunk.
C18_Witness ==
    /\ pc = "done"
    /\ \E i \in 1..Len(trace) :
        /\ trace[i][1] = "interrupt"
        /\ LastRead(i) > 0
        /\ trace[LastRead(i)][2] = 2
        /\ Cardinality({j \in (LastRead(i) + 1)..(i - 1) : trace[j][1] = "yield"}) = 1

\* C19: the sweep does nothing for a later record before the outcome of the
\* record before it has been handed over and the consumer has pulled again:
\* after a yield the next step is a pull, every liveness check has its own pull,
\* the events written are at most the outcomes yielded plus one, and while the
\* generator is suspended they are at most the outcomes yielded.
C19_Streaming ==
    LET st    == SweepTrace
        pulls == Len(Only(st, {"pull"}))
    IN  /\ Len(events) <= Len(outcomes) + 1
        /\ Len(Only(st, Checks)) <= Len(outcomes) + 1
        /\ Len(Only(st, Checks)) <= pulls
        /\ Len(outcomes) <= pulls
        /\ pulls <= Len(outcomes) + 1
        /\ pc \in {"created", "yield"} =>
            /\ pulls = Len(outcomes)
            /\ Len(events) <= Len(outcomes)
            /\ Len(Only(st, Checks)) = Len(outcomes)
        /\ \A i \in 1..Len(st) :
            (st[i][1] = "yield" /\ i < Len(st)) => st[i + 1][1] = "pull"

\* The generator is suspended at its second outcome, with an event written and
\* records of the next window still to come.
C19_Witness ==
    /\ pc = "yield"
    /\ Len(outcomes) = 2
    /\ Len(events) >= 1
    /\ Len(OffsetLimit(store, start + chunk_size, chunk_size)) > 0

\* C12: every event written carries the timestamps of the policy of 7 and 14 days
\* applied to the time T at which it was built: stale_warning_at = T + 7 and
\* culled_at = T + 14, so that culled_at - stale_warning_at = 7 and
\* stale_warning_at < culled_at; and the event being built carries the same.
C12_StalenessTimestamps ==
    /\ \A i \in 1..Len(events) :
        /\ events[i].timestamps.stale_warning_at = events[i].decided_at + 7
        /\ events[i].timestamps.culled_at = events[i].decided_at + 14
        /\ events[i].timestamps.culled_at - events[i].timestamps.stale_warning_at = 7
        /\ events[i].timestamps.stale_warning_at < events[i].timestamps.culled_at
    /\ pc = "write" =>
        /\ event.decided_at <= now
        /\ event.timestamps = [stale_warning_at |-> event.decided_at + 7,
                               culled_at |-> event.decided_at + 14]

\* Two events were written, the first built on day 0 and the second on day 1.
C12_Witness ==
    /\ Len(events) >= 2
    /\ events[1].decided_at = 0
    /\ events[2].decided_at = 1
    /\ events[2].timestamps.culled_at = 15

\* C20: the headers of every event carry the insights_id of the record's
\* canonical facts, or None for a record that has none; and a live record that
\* has none goes through the same steps as any live record: event build, one
\* write, and when the write returned the increment and the outcome (id, true).
\* No exception comes from the missing identifier.
C20_NoInsightsId ==
    LET st == SweepTrace
    IN  /\ error \in {"none", "store", "sink"}
        /\ \A i \in 1..Len(events) :
            /\ events[i].type = "updated"
            /\ events[i].headers.event_type = "updated"
            /\ events[i].headers.insights_id =
                 (IF "insights_id" \in DOMAIN canonical_facts(events[i].id)
                  THEN <<canonical_facts(events[i].id).insights_id>> ELSE << >>)
        /\ \A i \in 1..Len(st) :
            (st[i][1] = "live" /\ "insights_id" \notin DOMAIN canonical_facts(st[i][2])) =>
                /\ i + 1 <= Len(st) => st[i + 1] = <<"build", st[i][2]>>
                /\ i + 2 <= Len(st) => (st[i + 2][1] \in Writes /\ st[i + 2][2] = st[i][2])
                /\ (i + 3 <= Len(st) /\ st[i + 2][1] # "raise") =>
                    st[i + 3] = <<"inc", st[i][2]>>
                /\ i + 4 <= Len(st) =>
                    /\ st[i + 4] = <<"yield", st[i][2]>>
                    /\ outcomes[YieldsUpTo(st, i + 4)] = <<st[i][2], TRUE>>

\* The event of record 2, which has no insights_id, was acknowledged with headers
\* that carry None, and its outcome (2, true) was yielded.
C20_Witness ==
    /\ \E i \in 1..Len(events) :
        /\ events[i].id = 2
        /\ events[i].headers.insights_id = << >>
        /\ events[i].result = "ack"
    /\ \E k \in 1..Len(outcomes) : outcomes[k] = <<2, TRUE>>
    /\ counter >= 1

\* The records found expired at their liveness check.
RemovedIds == {trace[i][2] : i \in {j \in 1..Len(trace) : trace[j][1] = "removed"}}

\* C13: in the scenario (5 records, chunks of 2, every event acknowledged) a
\* sweep that has ended yielded 5 outcomes in selection order; when no record was
\* found expired all 5 are true, 5 "updated" events were written to the events
\* topic and the counter was incremented 5 times; when only record 3 was found
\* expired only the third outcome is false, the 4 events are those of records 1,
\* 2, 4 and 5 and the counter was incremented 4 times.
C13_EndToEnd ==
    pc = "done" =>
        /\ OutcomeIds = ScenarioStore
        /\ \A i \in 1..Len(events) :
            events[i].type = "updated" /\ events[i].topic = "events"
        /\ RemovedIds = {} =>
            /\ \A k \in 1..5 : outcomes[k][2]
            /\ Len(events) = 5
            /\ counter = 5
        /\ RemovedIds = {3} =>
            /\ \A k \in 1..5 : outcomes[k][2] <=> k # 3
            /\ [i \in 1..Len(events) |-> events[i].id] = <<1, 2, 4, 5>>
            /\ counter = 4

\* The scenario's sweep has ended with only record 3 found expired.
C13_Witness ==
    /\ pc = "done"
    /\ RemovedIds = {3}
    /\ Len(outcomes) = 5

(* ------------------------------- C14 ---------------------------------- *)

\* The ids of the event writes, in the order the shared producer got them,
\* that are for records of the selection sel.
EventIdsOf(sel) ==
    LET RECURSIVE pick(_)
        pick(es) == IF es = << >> THEN << >>
                    ELSE IF \E k \in 1..Len(sel) : sel[k] = Head(es).id
                         THEN <<Head(es).id>> \o pick(Tail(es))
                         ELSE pick(Tail(es))
    IN pick(events)

\* The ids of the outcomes os whose flag is TRUE, in order.
TrueIds(os) ==
    LET RECURSIVE pick(_)
        pick(t) == IF t = << >> THEN << >>
                   ELSE IF Head(t)[2] THEN <<Head(t)[1]>> \o pick(Tail(t))
                        ELSE pick(Tail(t))
    IN pick(os)

\* The sweep at position p is between two records: nothing of a visit is half
\* done.
BetweenRecords(p) == p \in {"created", "yield", "for", "advance", "poll", "while", "read", "total", "done"}

\* C14: when two sweeps run interleaved over disjoint partitions of one store,
\* sharing one event producer and one counter whose increment is atomic, each
\* sweep yields outcomes for its own records in its own selection order, every
\* record found live has exactly one event written for it, and once both sweeps
\* have ended the counter equals the number of synchronized = TRUE outcomes of
\* the two sweeps together.
C14_ConcurrentSweeps ==
    /\ IsPrefix(OutcomeIds, store0)
    /\ IsPrefix([k \in 1..Len(other.outcomes) |-> other.outcomes[k][1]], other.store)
    /\ BetweenRecords(pc) => EventIdsOf(store0) = TrueIds(outcomes)
    /\ BetweenRecords(other.pc) => EventIdsOf(other.store) = TrueIds(other.outcomes)
    /\ Len(events) = Len(EventIdsOf(store0)) + Len(EventIdsOf(other.store))
    /\ (pc = "done" /\ other.pc = "done") =>
          /\ OutcomeIds = store0
          /\ [k \in 1..Len(other.outcomes) |-> other.outcomes[k][1]] = other.store
          /\ counter = Len(TrueIds(outcomes)) + Len(TrueIds(other.outcomes))
          /\ \A k \in 1..Len(store0) : store0[k] \notin expired =>
                Cardinality({e \in 1..Len(events) : events[e].id = store0[k]}) = 1
          /\ \A k \in 1..Len(other.store) : other.store[k] \notin expired =>
                Cardinality({e \in 1..Len(events) : events[e].id = other.store[k]}) = 1
    /\ (Ended /\ other.pc \in {"done", "failed"}) =>
          counter = Len(TrueIds(outcomes)) + Len(TrueIds(other.outcomes))

\* Both sweeps ran to their end with their event writes interleaved: the second
\* sweep's first event lies between two events of the first sweep, and each
\* sweep has yielded a TRUE outcome.
C14_Witness ==
    /\ pc = "done"
    /\ other.pc = "done"
    /\ Len(TrueIds(outcomes)) = 2
    /\ Len(TrueIds(other.outcomes)) >= 1
    /\ Len(events) >= 3
    /\ events[1].id = store0[1]
    /\ events[2].id = other.store[1]
    /\ events[3].id = store0[2]
    /\ counter = Len(events)


(* ------------------------------- C21 ---------------------------------- *)

\* The ids of the records whose liveness the sweep has checked (line 27).
VisitedIds == {trace[i][2] : i \in {j \in 1..Len(trace) : trace[j][1] \in Checks}}

\* C21: a record that is in the selection from the start to the end of the
\* sweep, never deleted, has been visited at least once when the sweep has
\* ended normally without cancellation, also when other processes have deleted
\* other records of the selection between the chunk reads.
C21_SurvivorsVisited ==
    (pc = "done" /\ ~interrupted) =>
        \A k \in 1..Len(store) : store[k] \in VisitedIds

(* ------------------------------- C22 ---------------------------------- *)

\* No element occurs twice in the sequence q.
NoDuplicates(q) == \A i, j \in 1..Len(q) : q[i] = q[j] => i = j

\* C22: while the store keeps its ordering and only loses records during the
\* sweep, no record id occurs twice among the outcomes and no record has more
\* than one event written for it.
C22_NoRevisit ==
    /\ NoDuplicates(OutcomeIds)
    /\ NoDuplicates([i \in 1..Len(events) |-> events[i].id])

\* A record was deleted while the sweep was under way, and the sweep went on to
\* read another chunk and to yield outcomes and write events from it.
C22_Witness ==
    /\ mutated
    /\ Len(store) < Len(store0)
    /\ Len(Only(trace, {"read"})) >= 2
    /\ Len(outcomes) >= 2
    /\ Len(events) >= 2
    /\ pc = "done"

(* ------------------------------- C23 ---------------------------------- *)

\* The position in the history at which interrupt() started to return True
\* (0 if it has not).
InterruptAt ==
    LET RECURSIVE find(_)
        find(i) == IF i > Len(trace) THEN 0
                   ELSE IF trace[i][1] = "interrupt" THEN i ELSE find(i + 1)
    IN  IF interrupted THEN find(1) ELSE 0

\* The number of entries of the history after position i whose operation is one
\* of ops.
CountAfter(i, ops) == Cardinality({j \in (i + 1)..Len(trace) : trace[j][1] \in ops})

\* What the sweep has done since interrupt() started to return True stays
\* within one chunk and one poll; and a sweep that ended normally with
\* interrupt() True from before the first pull has read one chunk at most, has
\* an outcome for each of its records, an event for each record found live, and
\* as many polls as chunk reads.
WithinOneChunkOfInterrupt ==
    LET at == InterruptAt
    IN  /\ at > 0 =>
            /\ CountAfter(at, Checks) <= chunk_size
            /\ CountAfter(at, {"poll"}) <= 1
        /\ (at = 1 /\ pc = "done") =>
            /\ CountAfter(0, {"read"}) <= 1
            /\ polls = CountAfter(0, {"read"})
            /\ OutcomeIds = host_list
            /\ ~mutated => OutcomeIds = SubSeq(store0, 1, Min(chunk_size, Len(store0)))
            /\ Ids(Only(trace, {"live"})) = [i \in 1..Len(events) |-> events[i].id]
            /\ TrueOutcomes = CountAfter(0, {"live"})

\* C23: once interrupt() has started to return True, and from then on, the
\* sweep checks at most chunk_size further records and polls at most once more
\* before it ends. With interrupt() True before the first pull, the first chunk
\* is still read: a sweep that has ended normally has yielded an outcome for
\* each of its records (the first min(chunk_size, N) records of an unchanged
\* selection), has written an event for each record found live, and has ended
\* at the first poll.
C23_BoundedOvershoot == []WithinOneChunkOfInterrupt

\* interrupt() returned True before the first pull; the sweep visited the two
\* records of its first chunk, wrote an event, and ended at the first poll with
\* a record left unvisited.
C23_Witness ==
    /\ InterruptAt = 1
    /\ pc = "done"
    /\ chunk_size = 2
    /\ Len(store0) = 3
    /\ ~mutated
    /\ Len(outcomes) = 2
    /\ Len(events) >= 1
    /\ polls = 1

(* ------------------------------- C24 ---------------------------------- *)

\* write_event has raised at most once, for the record being visited, as the
\* last thing the sweep did: no increment, no yield and no liveness check
\* follows it, the outcomes are those of the records visited before and the
\* counter counts the writes that returned.
RaiseIsLast ==
    LET st == SweepTrace
    IN  \A i \in 1..Len(st) :
            st[i][1] = "raise" =>
                /\ i = Len(st)
                /\ pc = "failed" /\ error = "sink"
                /\ st[i][2] = host
                /\ Len(outcomes) = Len(Only(st, Checks)) - 1
                /\ Len(outcomes) = Len(Only(st, {"yield"}))
                /\ counter = Len(Only(st, {"ack", "failed"}))
                /\ counter = Len(Only(st, {"inc"}))

\* C24: when write_event raises for a live record the exception leaves the
\* generator at that record: the counter is not incremented for it, no outcome
\* is yielded for it, no later record is visited, and the outcomes, events and
\* increments of the earlier records stay as they were.
C24_RaiseEndsSweep ==
    [][/\ RaiseIsLast'
       /\ (pc = "write" /\ pc' = "failed") =>
            /\ outcomes' = outcomes
            /\ counter' = counter
            /\ SubSeq(events', 1, Len(events)) = events
       /\ error = "sink" =>
            /\ outcomes' = outcomes /\ events' = events /\ counter' = counter
            /\ pc' = "failed"]_vars

\* write_event raised for the second record of a selection of three, after an
\* event, an increment and an outcome for the first.
C24_Witness ==
    /\ error = "sink"
    /\ pc = "failed"
    /\ Len(store0) = 3 /\ ~mutated
    /\ idx = 2 \/ (chunk_size = 1 /\ start = 1)
    /\ Len(outcomes) = 1
    /\ counter = 1
    /\ Len(events) = 2
    /\ events[2].result = "raise"

====
